---- MODULE Spec2Model ----
(***************************************************************************)
(* Product store (MongoDB helper module, src/unnamed/part_001) and the     *)
(* HTTP resource controller that drives it (src/db.js), as state machines. *)
(*                                                                         *)
(* Texts (request parameters, string ids, native identifiers) are          *)
(* sequences of one-character strings, so that parseInt, String() and the  *)
(* ObjectId shape test are computed character by character.                *)
(***************************************************************************)
EXTENDS Integers, Sequences, FiniteSets, TLC

\* ------------------------------------------------------------------ bounds
\* Native identifiers the driver can hand out (bounds the number of inserts).
MaxOids == 2
\* Image uploads the image storage accepts over a run.
MaxUploads == 2
\* Image files one multipart request carries.
MaxFiles == 1
\* Last instant of the clock.
MaxClock == 2
\* Most retries a caller passes to connectDB.
MaxRetries == 2
\* Most MongoClient objects created in one run.
MaxClients == 3

\* Length of the text form of a database-assigned identifier.
ObjectIdLen == 24
\* connectDB(retries = 2).
DefaultRetries == 2
\* The delay after the attempt-th failure is attempt * RetryDelayMs.
RetryDelayMs == 1000

Procs == {"h1", "h2"}

\* ------------------------------------------------------- JavaScript values
Digits == <<"0", "1", "2", "3", "4", "5", "6", "7", "8", "9">>
HexLower == Digits \o <<"a", "b", "c", "d", "e", "f">>
HexUpper == Digits \o <<"A", "B", "C", "D", "E", "F">>
WhiteSpace == {" "}

Num(n) == [t |-> "num", v |-> n]
NaN == [t |-> "nan", v |-> 0]

\* Value of character c as a digit (0..15), -1 when it is none.
CharVal(c) ==
  IF \E i \in 1..16 : HexLower[i] = c
    THEN (CHOOSE i \in 1..16 : HexLower[i] = c) - 1
    ELSE IF \E i \in 1..16 : HexUpper[i] = c
      THEN (CHOOSE i \in 1..16 : HexUpper[i] = c) - 1
      ELSE -1

RECURSIVE StripLeft(_)
StripLeft(s) ==
  IF s # <<>> /\ Head(s) \in WhiteSpace THEN StripLeft(Tail(s)) ELSE s

\* The longest run of leading digits of s in the radix: its value and length.
RECURSIVE LeadDigits(_, _, _, _)
LeadDigits(s, radix, acc, n) ==
  IF s # <<>> /\ CharVal(Head(s)) >= 0 /\ CharVal(Head(s)) < radix
    THEN LeadDigits(Tail(s), radix, acc * radix + CharVal(Head(s)), n + 1)
    ELSE [v |-> acc, n |-> n]

\* parseInt(text) with no radix argument: leading white space, a sign, an
\* optional 0x prefix, then the longest digit prefix; NaN when there is none.
\* Whatever follows the digit prefix is ignored.
parseInt(s) ==
  LET t == StripLeft(s)
      neg == t # <<>> /\ Head(t) = "-"
      u == IF t # <<>> /\ Head(t) \in {"-", "+"} THEN Tail(t) ELSE t
      hex == Len(u) >= 2 /\ u[1] = "0" /\ u[2] \in {"x", "X"}
      body == IF hex THEN SubSeq(u, 3, Len(u)) ELSE u
      d == LeadDigits(body, IF hex THEN 16 ELSE 10, 0, 0)
  IN IF d.n = 0 THEN NaN ELSE Num(IF neg THEN 0 - d.v ELSE d.v)

\* Number(text), as Math.max applies it to a string id: the whole text must
\* be a (signed) decimal or an unsigned 0x literal, else NaN.
StringToNumber(s) ==
  LET u == IF s # <<>> /\ Head(s) \in {"-", "+"} THEN Tail(s) ELSE s
      hex == Len(s) >= 2 /\ s[1] = "0" /\ s[2] \in {"x", "X"}
      body == IF hex THEN SubSeq(s, 3, Len(s)) ELSE u
      d == LeadDigits(body, IF hex THEN 16 ELSE 10, 0, 0)
  IN IF s = <<>> THEN Num(0)
     ELSE IF d.n = 0 \/ d.n # Len(body) THEN NaN
     ELSE Num(IF ~hex /\ Head(s) = "-" THEN 0 - d.v ELSE d.v)

RECURSIVE NatText(_)
NatText(n) ==
  IF n < 10 THEN <<Digits[n + 1]>>
  ELSE NatText(n \div 10) \o <<Digits[(n % 10) + 1]>>

\* String(n) / n.toString() of an integer.
ToText(n) == IF n < 0 THEN <<"-">> \o NatText(0 - n) ELSE NatText(n)

\* ObjectId.isValid(id) && id.length === 24 for a text: 24 hex characters.
IsObjectIdText(s) ==
  Len(s) = ObjectIdLen /\ \A i \in 1..Len(s) : CharVal(s[i]) >= 0

\* The hex text an ObjectId built from s prints as (lower case).
ObjectIdOf(s) == [i \in 1..Len(s) |-> HexLower[CharVal(s[i]) + 1]]

\* ------------------------------------------------------------- documents
\* The id field of a stored document: a number, a string, NaN or missing.
IntId(n) == [t |-> "int", n |-> n, s |-> <<>>]
StrId(s) == [t |-> "str", n |-> 0, s |-> s]
NaNId == [t |-> "nan", n |-> 0, s |-> <<>>]
NoId == [t |-> "none", n |-> 0, s |-> <<>>]

\* JavaScript truthiness of an id field (p.id || 0, product.id ? .. : ..).
Truthy(id) ==
  \/ id.t = "int" /\ id.n # 0
  \/ id.t = "str" /\ id.s # <<>>

\* The absent document (null).
NoDoc ==
  [oid |-> <<>>, id |-> NoId, images |-> <<>>, specs |-> "", translations |-> "",
   createdAt |-> 0, updatedAt |-> 0]

\* ----------------------------------------------------------------- queries
ByNumericId(n) == [k |-> "id_num", n |-> n, s |-> <<>>]
ByStringId(s) == [k |-> "id_str", n |-> 0, s |-> s]
ByObjectId(s) == [k |-> "_id", n |-> 0, s |-> ObjectIdOf(s)]

\* Whether a document matches an equality filter; a number never equals a
\* string in the database's comparison order.
Matches(doc, q) ==
  CASE q.k = "id_num" -> doc.id.t = "int" /\ doc.id.n = q.n
    [] q.k = "id_str" -> doc.id.t = "str" /\ doc.id.s = q.s
    [] OTHER -> doc.oid = q.s

\* Position of the document findOne / findOneAndUpdate / findOneAndDelete
\* picks for a filter: the first match in storage order, 0 when none.
FindIndex(coll, q) ==
  IF \E i \in 1..Len(coll) : Matches(coll[i], q)
    THEN CHOOSE i \in 1..Len(coll) :
           Matches(coll[i], q) /\ \A j \in 1..(i - 1) : ~Matches(coll[j], q)
    ELSE 0

\* Remove the document at position i.
RemoveAt(coll, i) == SubSeq(coll, 1, i - 1) \o SubSeq(coll, i + 1, Len(coll))

\* ------------------------------------------------------ store: id policy
\* A variant of LookupQueries that tries the native identifier first.
LookupQueriesNativeFirst(id) ==
  (IF IsObjectIdText(id) THEN <<ByObjectId(id)>> ELSE <<>>)
    \o (IF parseInt(id).t = "num" THEN <<ByNumericId(parseInt(id).v)>> ELSE <<>>)
    \o <<ByStringId(id)>>

\* The filters getProductById tries, in order: the numeric id when the text
\* parses as an integer, the text itself as a string id, and the native
\* identifier when the text is shaped like one.
LookupQueries(id) ==
  (IF parseInt(id).t = "num" THEN <<ByNumericId(parseInt(id).v)>> ELSE <<>>)
    \o <<ByStringId(id)>>
    \o (IF IsObjectIdText(id) THEN <<ByObjectId(id)>> ELSE <<>>)

\* Position of the document the filters qs resolve to, trying them from the
\* k-th on against one state of the collection; 0 when none matches.
RECURSIVE FirstHit(_, _, _)
FirstHit(coll, qs, k) ==
  IF k > Len(qs) THEN 0
  ELSE IF FindIndex(coll, qs[k]) # 0 THEN FindIndex(coll, qs[k])
  ELSE FirstHit(coll, qs, k + 1)

\* getProductById against an unchanging collection: position of the record.
GetIndex(coll, id) == FirstHit(coll, LookupQueries(id), 1)

\* The single filter updateProduct and deleteProduct build from the text.
MutationQuery(id) ==
  IF parseInt(id).t = "num" THEN ByNumericId(parseInt(id).v)
  ELSE IF IsObjectIdText(id) THEN ByObjectId(id)
  ELSE ByStringId(id)

\* The id text a returned record carries: String(id) when the id field is
\* truthy, else the native identifier.
IdText(doc) ==
  IF Truthy(doc.id)
    THEN (IF doc.id.t = "int" THEN ToText(doc.id.n) ELSE doc.id.s)
    ELSE doc.oid

\* The record getProductById and updateProduct return for a stored document:
\* id as text, _id undefined.
Returned(doc) == [doc EXCEPT !.id = StrId(IdText(doc)), !.oid = <<>>]

\* ------------------------------------------------------- store: create
\* Number(p.id || 0) of one document.
IdNumber(doc) ==
  IF ~Truthy(doc.id) THEN Num(0)
  ELSE IF doc.id.t = "int" THEN Num(doc.id.n)
  ELSE StringToNumber(doc.id.s)

\* Math.max over a non-empty list of integers.
MaxOf(S) == CHOOSE m \in S : \A x \in S : x <= m

\* A variant of MaxId that counts the documents instead of reading their ids.
MaxIdFromCount(coll) == Num(Len(coll))

\* maxId of createProduct: 0 for the empty collection, NaN as soon as one id
\* does not convert to a number, else the largest converted id.
MaxId(coll) ==
  IF coll = <<>> THEN Num(0)
  ELSE IF \E i \in 1..Len(coll) : IdNumber(coll[i]).t = "nan" THEN NaN
  ELSE Num(MaxOf({IdNumber(coll[i]).v : i \in 1..Len(coll)}))

\* A variant of NewProduct that takes maxId itself as the new id.
NewProductNoIncrement(maxId, data, t1, t2) ==
  [oid |-> <<>>,
   id |-> IF maxId.t = "nan" THEN NaNId ELSE IntId(maxId.v),
   images |-> data.images, specs |-> data.specs,
   translations |-> data.translations,
   createdAt |-> t1, updatedAt |-> t2]

\* The document createProduct inserts: id maxId + 1, the caller's fields, and
\* the two timestamps (two readings of the clock).
NewProduct(maxId, data, t1, t2) ==
  [oid |-> <<>>,
   id |-> IF maxId.t = "nan" THEN NaNId ELSE IntId(maxId.v + 1),
   images |-> data.images, specs |-> data.specs,
   translations |-> data.translations,
   createdAt |-> t1, updatedAt |-> t2]

\* What createProduct returns: the new document with id as text and the
\* inserted native identifier as text.
CreateResult(newProduct, oid) ==
  [newProduct EXCEPT
     !.id = StrId(IF newProduct.id.t = "nan" THEN <<"N", "a", "N">>
                  ELSE ToText(newProduct.id.n)),
     !.oid = oid]

\* ------------------------------------------------------- store: update
\* A patch: the fields it names (has) and their values; the value of a field
\* it does not name is not looked at.
PatchFields == {"images", "specs", "translations"}
NoPatch == [has |-> {}, images |-> <<>>, specs |-> "", translations |-> ""]

\* A variant of ApplySet that writes the patch as the whole document body:
\* fields the patch does not name are emptied.
ApplySetReplacesBody(doc, updates, t) ==
  [doc EXCEPT !.images = IF "images" \in updates.has THEN updates.images ELSE <<>>,
              !.specs = IF "specs" \in updates.has THEN updates.specs ELSE "",
              !.translations =
                 IF "translations" \in updates.has THEN updates.translations ELSE "",
              !.updatedAt = t]

\* $set of {...updates, updatedAt} on one document: each field the patch
\* names takes the patch's value, updatedAt the current instant.
ApplySet(doc, updates, t) ==
  [doc EXCEPT !.images = IF "images" \in updates.has THEN updates.images ELSE @,
              !.specs = IF "specs" \in updates.has THEN updates.specs ELSE @,
              !.translations =
                 IF "translations" \in updates.has THEN updates.translations ELSE @,
              !.updatedAt = t]

\* ------------------------------------------------------------ image URLs
\* The k-th upload is stored under folder epolux/products; its secure_url
\* is the path segments up to the file, and the file as <<name, extension>>.
UploadFolder == <<"epolux", "products">>
AssetId(k) == [folder |-> UploadFolder, name |-> k]
SecureUrl(k) ==
  [parts |-> <<"https:", "", "res.cloudinary.com", "image", "upload">> \o UploadFolder,
   file |-> <<k, "jpg">>]

\* getCloudinaryPublicId: the segments after "upload" joined with the file
\* name without its extension.
getCloudinaryPublicId(url) ==
  LET parts == url.parts
      fileName == url.file[1]
      at == IF \E i \in 1..Len(parts) : parts[i] = "upload"
              THEN CHOOSE i \in 1..Len(parts) :
                     parts[i] = "upload" /\ \A j \in 1..(i - 1) : parts[j] # "upload"
              ELSE 0
      folderPath == IF at # 0 /\ at < Len(parts)
                      THEN SubSeq(parts, at + 1, Len(parts)) ELSE <<>>
  IN [folder |-> folderPath, name |-> fileName]

\* ----------------------------------------------------------------- inputs
\* The k-th native identifier of the pool: 24 hex characters. Odd k start
\* with a decimal digit (as identifiers led by a timestamp do), even k with
\* a letter.
OidLead(k) ==
  IF k % 2 = 1 THEN Digits[((((k + 1) \div 2) + 1) % 10) + 1]
  ELSE HexLower[11 + (((k \div 2) - 1) % 6)]
Oid(k) ==
  <<OidLead(k), "f">> \o [i \in 1..(ObjectIdLen - 3) |-> "0"] \o <<Digits[(k % 10) + 1]>>
OidPool == {Oid(k) : k \in 1..MaxOids}

\* Documents written under earlier schema revisions: one that relies on its
\* native identifier alone, one whose id is a string.
LegacyOid(k) ==
  <<"e", "e">> \o [i \in 1..(ObjectIdLen - 3) |-> "0"] \o <<Digits[(k % 10) + 1]>>
LegacyNoId ==
  [oid |-> LegacyOid(1), id |-> NoId, images |-> <<>>, specs |-> "s1",
   translations |-> "t1", createdAt |-> 0, updatedAt |-> 0]
LegacyStringId ==
  [oid |-> LegacyOid(2), id |-> StrId(<<"1", "x">>), images |-> <<>>, specs |-> "s1",
   translations |-> "t1", createdAt |-> 0, updatedAt |-> 0]
LegacyCollections == {<<LegacyNoId>>, <<LegacyStringId, LegacyNoId>>}

\* The id texts requests carry: decimal ids, a decimal id followed by
\* something else, and native identifiers.
IdTexts ==
  {ToText(n) : n \in 1..MaxOids} \cup {<<"1", "x">>} \cup OidPool \cup {LegacyOid(1)}

\* The productId values toggle requests carry; the empty text is a missing
\* productId.
StaticIds == {<<"s", "1">>, <<"s", "2">>}

\* The filters of each request text, worked out once.
LookupTable == [id \in IdTexts |-> LookupQueries(id)]
MutationTable == [id \in IdTexts |-> MutationQuery(id)]

\* Request bodies: specs and translations as JSON text; "bad" is malformed.
Bodies ==
  {[specs |-> "s1", translations |-> "t1"],
   [specs |-> "s2", translations |-> "t2"],
   [specs |-> "bad", translations |-> "t1"]}

AdminToken == "epolux-admin-2024"

\* Authorization headers as their words (split at spaces); <<>> is a request
\* without the header. The token is the second word, "" when there is none.
Headers ==
  {<<>>, <<"Bearer">>, <<"Bearer", "wrong">>, <<"Bearer", AdminToken>>,
   <<"Token", AdminToken>>}
TokenOf(header) == IF Len(header) >= 2 THEN header[2] ELSE ""
Tokens == {TokenOf(h) : h \in Headers}

\* The patches updateProduct is called with directly: every choice of fields,
\* each with one new value.
Patches ==
  {[has |-> h, images |-> <<MaxUploads>>, specs |-> "s2", translations |-> "t2"] :
     h \in SUBSET PatchFields}

\* The sub-sequences of a list of images (what a client may send back as
\* existingImages).
Range(seq) == {seq[i] : i \in 1..Len(seq)}
Keeps(images) ==
  {SelectSeq(images, LAMBDA u : u \in S) : S \in SUBSET Range(images)}

\* ------------------------------------------------------------------ state
VARIABLES
  products,      \* the products collection, in storage order
  usedOids,      \* native identifiers the driver has handed out
  cloud,         \* image storage: the uploads whose asset exists
  staticDoc,     \* the "config" document of the staticProducts collection
  uploads,       \* number of uploads accepted so far
  storageUp,     \* whether the database answers
  now,           \* the clock
  clockRuns,     \* whether the clock advances in this run
  req,           \* per handler: the request in flight and its local variables
  pre,           \* per handler: collection and image storage at request start
  createLog,     \* ids returned by createProduct, in order of return
  createOverlap, \* some createProduct read while another was between read and insert
  isVercel,      \* file revision: products live in memory rather than in the file
  MONGODB_URI,   \* the connection string of the environment, "" when unset
  client,        \* module-level client: index into clients, 0 for null
  db,            \* module-level db: the client its handle belongs to, 0 for null
  clients        \* every MongoClient created so far

vars ==
  <<products, usedOids, cloud, staticDoc, uploads, storageUp, now, clockRuns, req,
    pre, createLog, createOverlap, isVercel, MONGODB_URI, client, db, clients>>

\* The connection module's variables.
connVars == <<isVercel, MONGODB_URI, client, db, clients>>

NoPre ==
  [products |-> <<>>, cloud |-> {}, hidden |-> <<>>, set |-> FALSE, peer |-> FALSE]

\* The config document before the first save (findOne answers null).
NoConfig == [present |-> FALSE, hidden |-> <<>>]

Idle ==
  [pc |-> "idle", op |-> "none", tok |-> "", id |-> <<>>, files |-> 0,
   patch |-> NoPatch, seen |-> <<>>, list |-> <<>>,
   body |-> [specs |-> "", translations |-> ""], keep |-> <<>>, keepOk |-> TRUE,
   imageUrls |-> <<>>, tier |-> 0, product |-> NoDoc, maxId |-> Num(0),
   todo |-> <<>>, hid |-> <<>>, status |-> 0, dbErr |-> FALSE, out |-> NoDoc,
   index |-> 0, retries |-> 0, attempt |-> 0, mine |-> 0, delays |-> <<>>, handle |-> 0]

\* The uri is configured and nothing has connected yet.
Uri == "mongodb+srv://cluster"
Disconnected ==
  /\ isVercel = FALSE
  /\ MONGODB_URI = Uri
  /\ client = 0
  /\ db = 0
  /\ clients = <<>>

Init ==
  /\ products = <<>>
  /\ usedOids = {}
  /\ cloud = {}
  /\ staticDoc = NoConfig
  /\ uploads = 0
  /\ storageUp = TRUE
  /\ now = 0
  /\ clockRuns = FALSE
  /\ req = [p \in Procs |-> Idle]
  /\ pre = [p \in Procs |-> NoPre]
  /\ createLog = <<>>
  /\ createOverlap = FALSE
  /\ Disconnected

\* ------------------------------------------------------- handler plumbing
\* res.status(code).json(..): the handler is finished.
Respond(r, code) == [r EXCEPT !.pc = "done", !.status = code]

\* A variant of authenticate that lets every non-empty token through.
authenticateAnyToken(tok) == IF tok = "" THEN 401 ELSE 0

\* authenticate: 401 without a token, 403 for a token that is not the
\* configured one, else the handler runs (0).
authenticate(tok) ==
  IF tok = "" THEN 401 ELSE IF tok # AdminToken THEN 403 ELSE 0

\* A request starts on an idle handler p.
Begin(p) == req[p].pc = "idle"

\* What a request finds when it starts: the persisted hidden list; the
\* collection and image storage when no other handler is busy (set); and
\* whether another request is in flight at that moment (peer).
Snapshot(p) ==
  IF \A q \in Procs \ {p} : req[q].pc = "idle"
    THEN [products |-> products, cloud |-> cloud, hidden |-> staticDoc.hidden,
          set |-> TRUE, peer |-> FALSE]
    ELSE [NoPre EXCEPT
            !.hidden = staticDoc.hidden,
            !.peer = \E q \in Procs \ {p} : req[q].pc \notin {"idle", "done"}]

AuthOps == {"POST", "PUT", "DELETE"}

\* authenticate answers 401 or 403 itself and the handler never runs.
AuthReject(p, op, tok) ==
  /\ Begin(p)
  /\ authenticate(tok) # 0
  /\ req' = [req EXCEPT ![p] = Respond([Idle EXCEPT !.op = op, !.tok = tok], authenticate(tok))]
  /\ pre' = [pre EXCEPT ![p] = Snapshot(p)]
  /\ UNCHANGED connVars
  /\ UNCHANGED <<staticDoc, products, usedOids, cloud, uploads, storageUp, now, clockRuns,
                 createLog, createOverlap>>

\* The response has been sent; the handler's locals are gone.
Finish(p) ==
  /\ req[p].pc = "done"
  /\ req' = [req EXCEPT ![p] = Idle]
  /\ pre' = [pre EXCEPT ![p] = NoPre]
  /\ UNCHANGED connVars
  /\ UNCHANGED <<staticDoc, products, usedOids, cloud, uploads, storageUp, now, clockRuns,
                 createLog, createOverlap>>

\* The database becomes unreachable, or reachable again.
StorageFail ==
  /\ storageUp
  /\ storageUp' = FALSE
  /\ UNCHANGED connVars
  /\ UNCHANGED <<staticDoc, products, usedOids, cloud, uploads, now, clockRuns, req, pre,
                 createLog, createOverlap>>

StorageRecover ==
  /\ ~storageUp
  /\ storageUp' = TRUE
  /\ UNCHANGED connVars
  /\ UNCHANGED <<staticDoc, products, usedOids, cloud, uploads, now, clockRuns, req, pre,
                 createLog, createOverlap>>

\* The instants a second reading of the clock may return after a first
\* reading of t.
Later(t) == IF clockRuns /\ t < MaxClock THEN {t, t + 1} ELSE {t}

\* --------------------------------------------- PUT /api/products/:id (sync)
\* The updates object and the call of updateProduct; JSON.parse of malformed
\* specs throws into the handler's catch.
PutBuildUpdates(r) ==
  IF r.body.specs = "bad" THEN Respond(r, 500) ELSE [r EXCEPT !.pc = "update"]

\* A variant of PutAfterUpload without the check for an empty image set.
PutAfterUploadNoCheck(r) ==
  LET imagesToDelete ==
        SelectSeq(r.product.images, LAMBDA img : img \notin Range(r.imageUrls))
  IN IF imagesToDelete # <<>>
       THEN [r EXCEPT !.pc = "destroy", !.todo = imagesToDelete]
     ELSE PutBuildUpdates(r)

\* After the uploads: the empty image set is refused, then the old images
\* that are no longer listed are queued for deletion from image storage.
PutAfterUpload(r) ==
  LET imagesToDelete ==
        SelectSeq(r.product.images, LAMBDA img : img \notin Range(r.imageUrls))
  IN IF r.imageUrls = <<>> THEN Respond(r, 400)
     ELSE IF imagesToDelete # <<>>
       THEN [r EXCEPT !.pc = "destroy", !.todo = imagesToDelete]
     ELSE PutBuildUpdates(r)

\* After getProductById: 404 when nothing resolved; JSON.parse of malformed
\* existingImages throws into the handler's catch.
PutAfterLookup(r, doc) ==
  IF doc = NoDoc THEN Respond(r, 404)
  ELSE IF ~r.keepOk THEN Respond(r, 500)
  ELSE LET r2 == [r EXCEPT !.product = doc, !.imageUrls = r.keep]
       IN IF r2.files > 0 THEN [r2 EXCEPT !.pc = "upload"] ELSE PutAfterUpload(r2)

\* ------------------------------------------ DELETE /api/products/:id (sync)
DeleteAfterLookup(r, doc) ==
  IF doc = NoDoc THEN Respond(r, 404)
  ELSE IF doc.images # <<>>
    THEN [r EXCEPT !.product = doc, !.pc = "destroy", !.todo = doc.images]
  ELSE [r EXCEPT !.product = doc, !.pc = "delete"]

\* --------------------------------------------- GET /api/products/:id (sync)
GetAfterLookup(r, doc) ==
  IF doc = NoDoc THEN Respond(r, 404) ELSE Respond([r EXCEPT !.out = doc], 200)

AfterLookup(r, doc) ==
  CASE r.op = "GET" -> GetAfterLookup(r, doc)
    [] r.op = "PUT" -> PutAfterLookup(r, doc)
    [] OTHER -> DeleteAfterLookup(r, doc)

\* ------------------------------------------------ POST /api/products (sync)
\* After the uploads: malformed specs/translations answer 400, else the
\* product data goes to createProduct (MONGODB_URI is taken as configured).
PostAfterUpload(r) ==
  IF r.body.specs = "bad" THEN Respond(r, 400) ELSE [r EXCEPT !.pc = "create_read"]

\* ---------------------------------------------------------- request starts
GetStart(p, id) ==
  /\ Begin(p)
  /\ req' = [req EXCEPT ![p] =
               [Idle EXCEPT !.pc = "lookup", !.op = "GET", !.id = id, !.tier = 1]]
  /\ UNCHANGED connVars
  /\ UNCHANGED <<staticDoc, products, usedOids, cloud, uploads, storageUp, now, clockRuns, pre,
                 createLog, createOverlap>>

\* Creates in flight that have not inserted yet.
PendingCreates ==
  Cardinality({q \in Procs : req[q].op = "POST" /\ req[q].pc \notin {"idle", "done"}})

\* A variant of PostStart without the check for uploaded files.
PostStartNoCheck(p, tok, n, body) ==
  /\ Begin(p)
  /\ authenticate(tok) = 0
  /\ Cardinality(usedOids) + PendingCreates < MaxOids
  /\ req' = [req EXCEPT ![p] =
       IF n = 0 THEN PostAfterUpload([Idle EXCEPT !.op = "POST", !.tok = tok,
                                                  !.body = body])
       ELSE [Idle EXCEPT !.pc = "upload", !.op = "POST", !.tok = tok, !.files = n,
                         !.body = body]]
  /\ pre' = [pre EXCEPT ![p] = Snapshot(p)]
  /\ UNCHANGED connVars
  /\ UNCHANGED <<staticDoc, products, usedOids, cloud, uploads, storageUp, now, clockRuns,
                 createLog, createOverlap>>

\* POST /api/products up to its first await: 400 when no file came with the
\* request, else the uploads begin.

PostStart(p, tok, n, body) ==
  /\ Begin(p)
  /\ authenticate(tok) = 0
  /\ Cardinality(usedOids) + PendingCreates < MaxOids
  /\ req' = [req EXCEPT ![p] =
       IF n = 0 THEN Respond([Idle EXCEPT !.op = "POST", !.tok = tok], 400)
       ELSE [Idle EXCEPT !.pc = "upload", !.op = "POST", !.tok = tok, !.files = n,
                         !.body = body]]
  /\ pre' = [pre EXCEPT ![p] = Snapshot(p)]
  /\ UNCHANGED connVars
  /\ UNCHANGED <<staticDoc, products, usedOids, cloud, uploads, storageUp, now, clockRuns,
                 createLog, createOverlap>>

PutStart(p, tok, id, n, body, keep, keepOk) ==
  /\ Begin(p)
  /\ authenticate(tok) = 0
  /\ req' = [req EXCEPT ![p] =
            [Idle EXCEPT !.pc = "lookup", !.op = "PUT", !.tok = tok, !.id = id, !.tier = 1,
                         !.files = n, !.body = body,
                         !.keep = IF keepOk THEN keep ELSE <<>>, !.keepOk = keepOk]]
  /\ pre' = [pre EXCEPT ![p] = Snapshot(p)]
  /\ UNCHANGED connVars
  /\ UNCHANGED <<staticDoc, products, usedOids, cloud, uploads, storageUp, now, clockRuns,
                 createLog, createOverlap>>

DeleteStart(p, tok, id) ==
  /\ Begin(p)
  /\ authenticate(tok) = 0
  /\ req' = [req EXCEPT ![p] =
            [Idle EXCEPT !.pc = "lookup", !.op = "DELETE", !.tok = tok, !.id = id,
                         !.tier = 1]]
  /\ pre' = [pre EXCEPT ![p] = Snapshot(p)]
  /\ UNCHANGED connVars
  /\ UNCHANGED <<staticDoc, products, usedOids, cloud, uploads, storageUp, now, clockRuns,
                 createLog, createOverlap>>

\* The images a client that has just read the product behind id can send
\* back as existingImages.
ImagesOf(id) ==
  LET i == FirstHit(products, LookupTable[id], 1)
  IN IF i = 0 THEN <<>> ELSE products[i].images

\* ------------------------------------------------------- awaited steps
\* One findOne of getProductById: the next filter against the collection as
\* it is now. A storage error is caught inside getProductById, which then
\* returns null, as it does when no filter matches.
LookupStep(p) ==
  /\ req[p].pc = "lookup"
  /\ LET r == req[p]
         qs == LookupTable[r.id]
         i == FindIndex(products, qs[r.tier])
     IN req' = [req EXCEPT ![p] =
          IF ~storageUp THEN AfterLookup([r EXCEPT !.dbErr = TRUE], NoDoc)
          ELSE IF i # 0 THEN AfterLookup(r, Returned(products[i]))
          ELSE IF r.tier < Len(qs) THEN [r EXCEPT !.tier = r.tier + 1]
          ELSE AfterLookup(r, NoDoc)]
  /\ UNCHANGED connVars
  /\ UNCHANGED <<staticDoc, products, usedOids, cloud, uploads, storageUp, now, clockRuns, pre,
                 createLog, createOverlap>>

\* One uploadToCloudinary: the asset is stored and its URL appended, or the
\* upload is rejected (POST answers 500 on the spot, PUT through its catch).
UploadStep(p) ==
  /\ req[p].pc = "upload"
  /\ LET r == req[p]
         r2 == [r EXCEPT !.imageUrls = Append(@, uploads + 1), !.files = @ - 1]
     IN \/ /\ uploads < MaxUploads
           /\ uploads' = uploads + 1
           /\ cloud' = cloud \cup {uploads + 1}
           /\ req' = [req EXCEPT ![p] =
                IF r2.files > 0 THEN r2
                ELSE IF r.op = "POST" THEN PostAfterUpload(r2)
                ELSE PutAfterUpload(r2)]
        \/ /\ req' = [req EXCEPT ![p] = Respond(r, 500)]
           /\ UNCHANGED <<cloud, uploads>>
  /\ UNCHANGED connVars
  /\ UNCHANGED <<staticDoc, products, usedOids, storageUp, now, clockRuns, pre, createLog, createOverlap>>

\* One cloudinary.uploader.destroy of the next queued image; a failure is
\* logged and ignored. After the last one PUT goes on to updateProduct and
\* DELETE to deleteProduct.
DestroyStep(p) ==
  /\ req[p].pc = "destroy"
  /\ LET r == req[p]
         publicId == getCloudinaryPublicId(SecureUrl(Head(r.todo)))
         rest == [r EXCEPT !.todo = Tail(@)]
     IN /\ \E ok \in BOOLEAN :
             cloud' = IF ok THEN {k \in cloud : AssetId(k) # publicId} ELSE cloud
        /\ req' = [req EXCEPT ![p] =
             IF rest.todo # <<>> THEN rest
             ELSE IF r.op = "PUT" THEN PutBuildUpdates(rest)
             ELSE [rest EXCEPT !.pc = "delete"]]
  /\ UNCHANGED connVars
  /\ UNCHANGED <<staticDoc, products, usedOids, uploads, storageUp, now, clockRuns, pre,
                 createLog, createOverlap>>

\* createProduct up to its insert: the whole collection is read, maxId is
\* computed and the new document is built. A storage error is rethrown and
\* the handler answers 500.
CreateRead(p) ==
  /\ req[p].pc = "create_read"
  /\ LET r == req[p]
         data == [images |-> r.imageUrls, specs |-> r.body.specs,
                  translations |-> r.body.translations]
     IN IF ~storageUp
          THEN /\ req' = [req EXCEPT ![p] = Respond([r EXCEPT !.dbErr = TRUE], 500)]
               /\ UNCHANGED <<now, createOverlap>>
          ELSE \E t2 \in Later(now) :
               /\ req' = [req EXCEPT ![p] =
                    [r EXCEPT !.pc = "create_insert", !.maxId = MaxId(products),
                              !.product = NewProduct(MaxId(products), data, now, t2)]]
               /\ now' = t2
               /\ createOverlap' =
                    (createOverlap
                       \/ \E q \in Procs \ {p} : req[q].pc = "create_insert")
  /\ UNCHANGED connVars
  /\ UNCHANGED <<staticDoc, products, usedOids, cloud, uploads, storageUp, clockRuns, pre,
                 createLog>>

\* A variant of CreateInsert that writes by id (an upsert): a stored document
\* with the new document's id is replaced instead of joined by a second one.
CreateInsertUpsert(p) ==
  /\ req[p].pc = "create_insert"
  /\ LET r == req[p]
         same == {i \in 1..Len(products) : products[i].id = r.product.id}
     IN IF ~storageUp
          THEN /\ req' = [req EXCEPT ![p] = Respond([r EXCEPT !.dbErr = TRUE], 500)]
               /\ UNCHANGED <<products, usedOids, createLog>>
          ELSE \E oid \in OidPool \ usedOids :
               /\ products' =
                    IF same = {} THEN Append(products, [r.product EXCEPT !.oid = oid])
                    ELSE [i \in 1..Len(products) |->
                            IF i \in same
                              THEN [r.product EXCEPT !.oid = products[i].oid]
                              ELSE products[i]]
               /\ usedOids' = usedOids \cup {oid}
               /\ createLog' = Append(createLog, CreateResult(r.product, oid).id.s)
               /\ req' = [req EXCEPT ![p] =
                    Respond([r EXCEPT !.out = CreateResult(r.product, oid)], 200)]
  /\ UNCHANGED connVars
  /\ UNCHANGED <<staticDoc, cloud, uploads, storageUp, now, clockRuns, pre,
                 createOverlap>>

\* insertOne of the document built before, under a fresh native identifier,
\* and the handler's answer.
CreateInsert(p) ==
  /\ req[p].pc = "create_insert"
  /\ LET r == req[p]
     IN IF ~storageUp
          THEN /\ req' = [req EXCEPT ![p] = Respond([r EXCEPT !.dbErr = TRUE], 500)]
               /\ UNCHANGED <<products, usedOids, createLog>>
          ELSE \E oid \in OidPool \ usedOids :
               /\ products' = Append(products, [r.product EXCEPT !.oid = oid])
               /\ usedOids' = usedOids \cup {oid}
               /\ createLog' = Append(createLog, CreateResult(r.product, oid).id.s)
               /\ req' = [req EXCEPT ![p] =
                    Respond([r EXCEPT !.out = CreateResult(r.product, oid)], 200)]
  /\ UNCHANGED connVars
  /\ UNCHANGED <<staticDoc, cloud, uploads, storageUp, now, clockRuns, pre,
                 createOverlap>>

\* updateProduct: one findOneAndUpdate under the single filter built from
\* the text; null (404) when it matches nothing, 500 on a storage error.
UpdateStep(p) ==
  /\ req[p].pc = "update"
  /\ LET r == req[p]
         i == FindIndex(products, MutationTable[r.id])
         updates == [has |-> PatchFields, images |-> r.imageUrls,
                     specs |-> r.body.specs, translations |-> r.body.translations]
     IN IF ~storageUp
          THEN /\ req' = [req EXCEPT ![p] = Respond([r EXCEPT !.dbErr = TRUE], 500)]
               /\ UNCHANGED products
        ELSE IF i = 0
          THEN /\ req' = [req EXCEPT ![p] = Respond(r, 404)]
               /\ UNCHANGED products
        ELSE /\ products' = [products EXCEPT ![i] = ApplySet(@, updates, now)]
             /\ req' = [req EXCEPT ![p] =
                  Respond([r EXCEPT !.out = Returned(ApplySet(products[i], updates, now))],
                          200)]
  /\ UNCHANGED connVars
  /\ UNCHANGED <<staticDoc, usedOids, cloud, uploads, storageUp, now, clockRuns, pre, createLog, createOverlap>>

\* deleteProduct: one findOneAndDelete under the single filter built from
\* the text; false (404) when it matches nothing, 500 on a storage error.
DeleteStep(p) ==
  /\ req[p].pc = "delete"
  /\ LET r == req[p]
         i == FindIndex(products, MutationTable[r.id])
     IN IF ~storageUp
          THEN /\ req' = [req EXCEPT ![p] = Respond([r EXCEPT !.dbErr = TRUE], 500)]
               /\ UNCHANGED products
        ELSE IF i = 0
          THEN /\ req' = [req EXCEPT ![p] = Respond(r, 404)]
               /\ UNCHANGED products
        ELSE /\ products' = RemoveAt(products, i)
             /\ req' = [req EXCEPT ![p] = Respond(r, 200)]
  /\ UNCHANGED connVars
  /\ UNCHANGED <<staticDoc, usedOids, cloud, uploads, storageUp, now, clockRuns, pre, createLog, createOverlap>>

\* ------------------------------------- POST /api/static-products/toggle
\* getStaticProducts: the config document, or the default {hidden: []} when
\* there is none or when storage fails (the error is caught and logged).
getStaticProducts(doc, up) == IF up /\ doc.present THEN doc.hidden ELSE <<>>

\* A variant of Toggled that only ever hides: a hidden id stays hidden.
ToggledHidesOnly(hidden, id) ==
  IF \E i \in 1..Len(hidden) : hidden[i] = id THEN hidden ELSE Append(hidden, id)

\* indexOf / push / splice: the id is appended when absent, else its first
\* occurrence is removed.
Toggled(hidden, id) ==
  IF \E i \in 1..Len(hidden) : hidden[i] = id
    THEN RemoveAt(hidden, CHOOSE i \in 1..Len(hidden) :
                            hidden[i] = id /\ \A j \in 1..(i - 1) : hidden[j] # id)
    ELSE Append(hidden, id)

ToggleStart(p, tok, productId) ==
  /\ Begin(p)
  /\ authenticate(tok) = 0
  /\ req' = [req EXCEPT ![p] =
       IF productId = <<>> THEN Respond([Idle EXCEPT !.op = "TOGGLE", !.tok = tok], 400)
       ELSE [Idle EXCEPT !.pc = "toggle_get", !.op = "TOGGLE", !.tok = tok,
                         !.id = productId]]
  /\ pre' = [pre EXCEPT ![p] = Snapshot(p)]
  /\ UNCHANGED connVars
  /\ UNCHANGED <<staticDoc, products, usedOids, cloud, uploads, storageUp, now,
                 clockRuns, createLog, createOverlap>>

\* await getStaticProducts(), then the toggled array is built.
ToggleGet(p) ==
  /\ req[p].pc = "toggle_get"
  /\ req' = [req EXCEPT ![p] =
       [req[p] EXCEPT !.pc = "toggle_save",
                      !.seen = getStaticProducts(staticDoc, storageUp),
                      !.hid = Toggled(getStaticProducts(staticDoc, storageUp), req[p].id),
                      !.dbErr = ~storageUp]]
  /\ UNCHANGED connVars
  /\ UNCHANGED <<staticDoc, products, usedOids, cloud, uploads, storageUp, now,
                 clockRuns, pre, createLog, createOverlap>>

\* await saveStaticProducts({hidden}): the upsert replaces the hidden array;
\* a storage error is caught there (false is returned and not looked at).
\* The handler then answers the array it built.
ToggleSave(p) ==
  /\ req[p].pc = "toggle_save"
  /\ staticDoc' = IF storageUp THEN [present |-> TRUE, hidden |-> req[p].hid]
                  ELSE staticDoc
  /\ req' = [req EXCEPT ![p] =
       Respond([req[p] EXCEPT !.dbErr = (req[p].dbErr \/ ~storageUp)], 200)]
  /\ UNCHANGED connVars
  /\ UNCHANGED <<products, usedOids, cloud, uploads, storageUp, now, clockRuns, pre,
                 createLog, createOverlap>>

\* ------------------------------------------------- the store called directly
\* Time passes.
Tick ==
  /\ clockRuns /\ now < MaxClock
  /\ now' = now + 1
  /\ UNCHANGED connVars
  /\ UNCHANGED <<products, usedOids, cloud, staticDoc, uploads, storageUp, clockRuns, req,
                 pre, createLog, createOverlap>>

\* updateProduct(id, updates) called with any patch: one findOneAndUpdate
\* under the single filter; the updated record is returned, null when the
\* filter matches nothing; a storage error is rethrown.
StoreUpdate(p, id, updates) ==
  /\ Begin(p)
  /\ LET r == [Idle EXCEPT !.op = "UPDATE", !.id = id, !.patch = updates]
         i == FindIndex(products, MutationTable[id])
     IN IF ~storageUp
          THEN /\ req' = [req EXCEPT ![p] = Respond([r EXCEPT !.dbErr = TRUE], 500)]
               /\ UNCHANGED products
        ELSE IF i = 0
          THEN /\ req' = [req EXCEPT ![p] = Respond(r, 404)]
               /\ UNCHANGED products
        ELSE /\ products' = [products EXCEPT ![i] = ApplySet(@, updates, now)]
             /\ req' = [req EXCEPT ![p] =
                  Respond([r EXCEPT !.out = Returned(ApplySet(products[i], updates, now))],
                          200)]
  /\ pre' = [pre EXCEPT ![p] = Snapshot(p)]
  /\ UNCHANGED connVars
  /\ UNCHANGED <<staticDoc, usedOids, cloud, uploads, storageUp, now, clockRuns, createLog,
                 createOverlap>>

\* A variant of Listed that hands the stored id on as it is.
ListedRaw(doc) == [doc EXCEPT !.oid = <<>>]

\* One element of the list getProducts returns: the document with id as
\* String(p.id) when p.id is truthy, else the native identifier as text, and
\* _id undefined.
Listed(doc) ==
  [doc EXCEPT
     !.id = StrId(IF Truthy(doc.id)
                    THEN (IF doc.id.t = "int" THEN ToText(doc.id.n) ELSE doc.id.s)
                    ELSE doc.oid),
     !.oid = <<>>]

\* getProducts behind GET /api/products: find({}).toArray() mapped through
\* Listed; a storage error is caught and the empty list returned.
ListCall(p) ==
  /\ Begin(p)
  /\ req' = [req EXCEPT ![p] =
       Respond([Idle EXCEPT !.op = "LIST", !.dbErr = ~storageUp,
                            !.list = IF storageUp
                                       THEN [i \in 1..Len(products) |-> Listed(products[i])]
                                       ELSE <<>>],
               200)]
  /\ UNCHANGED connVars
  /\ UNCHANGED <<products, usedOids, cloud, staticDoc, uploads, storageUp, now, clockRuns,
                 pre, createLog, createOverlap>>

\* ------------------------------- the file revision (src/unnamed/part_000)
\* products holds productsData (isVercel) or the content of products.json.
\* A slot of a sparse array that was never assigned.
Hole == [NoDoc EXCEPT !.id = [t |-> "hole", n |-> 0, s |-> <<>>]]

\* The array getProducts returns to a handler: productsData itself when
\* isVercel (list stays unused), else a fresh parse of the file kept in list.
MemArray(r) == IF isVercel THEN products ELSE r.list

\* products.findIndex(p => p.id === parseInt(id)), 1-based, 0 for -1; the
\* callback throws on a hole that is visited before a match.
MemFindIndex(arr, id) ==
  LET n == parseInt(id)
      hit == {i \in 1..Len(arr) : n.t = "num" /\ arr[i].id = IntId(n.v)}
      first == IF hit = {} THEN Len(arr) + 1 ELSE CHOOSE i \in hit : \A j \in hit : i <= j
  IN [index |-> IF hit = {} THEN 0 ELSE first,
      throws |-> \E i \in 1..(first - 1) : arr[i] = Hole]

\* arr[index] = value on a JavaScript array: beyond the end the array grows
\* and the slots in between are holes.
SetAt(arr, index, value) ==
  [i \in 1..(IF index > Len(arr) THEN index ELSE Len(arr)) |->
     IF i = index THEN value ELSE IF i <= Len(arr) THEN arr[i] ELSE Hole]

\* products[index] = {...products[index], images, specs, translations,
\* updatedAt} at the index found before the awaits; spreading a missing slot
\* contributes no field.
PutWritten(arr, r, t) ==
  LET old == IF r.index <= Len(arr) /\ arr[r.index] # Hole THEN arr[r.index] ELSE NoDoc
  IN SetAt(arr, r.index,
           [old EXCEPT !.images = r.imageUrls, !.specs = r.body.specs,
                       !.translations = r.body.translations, !.updatedAt = t])

\* products.splice(index, 1) at the index found before the awaits.
Spliced(arr, r) == IF r.index <= Len(arr) THEN RemoveAt(arr, r.index) ELSE arr

\* The synchronous code of a handler up to its next await: a PUT that has
\* nothing left to await writes and saves, a DELETE splices and saves.
MemSettle(p, r) ==
  IF r.pc = "update"
    THEN /\ products' = PutWritten(MemArray(r), r, now)
         /\ req' = [req EXCEPT ![p] =
              Respond([r EXCEPT !.out = PutWritten(MemArray(r), r, now)[r.index]], 200)]
  ELSE IF r.pc = "delete"
    THEN /\ products' = Spliced(MemArray(r), r)
         /\ req' = [req EXCEPT ![p] = Respond(r, 200)]
  ELSE /\ req' = [req EXCEPT ![p] = r]
       /\ UNCHANGED products

\* PUT /api/products/:id of the file revision up to its first await.
MemPutStart(p, tok, id, n, body, keep) ==
  /\ Begin(p)
  /\ authenticate(tok) = 0
  /\ LET f == MemFindIndex(products, id)
         r == [Idle EXCEPT !.op = "PUT", !.tok = tok, !.id = id, !.files = n, !.body = body,
                           !.keep = keep, !.index = f.index,
                           !.list = IF isVercel THEN <<>> ELSE products]
     IN MemSettle(p, IF f.throws THEN Respond(r, 500)
                     ELSE IF f.index = 0 THEN Respond(r, 404)
                     ELSE PutAfterLookup(r, products[f.index]))
  /\ pre' = [pre EXCEPT ![p] = Snapshot(p)]
  /\ UNCHANGED connVars
  /\ UNCHANGED <<staticDoc, usedOids, cloud, uploads, storageUp, now, clockRuns, createLog,
                 createOverlap>>

\* DELETE /api/products/:id of the file revision up to its first await.
MemDeleteStart(p, tok, id) ==
  /\ Begin(p)
  /\ authenticate(tok) = 0
  /\ LET f == MemFindIndex(products, id)
         r == [Idle EXCEPT !.op = "DELETE", !.tok = tok, !.id = id, !.index = f.index,
                           !.list = IF isVercel THEN <<>> ELSE products]
     IN MemSettle(p, IF f.throws THEN Respond(r, 500)
                     ELSE IF f.index = 0 THEN Respond(r, 404)
                     ELSE DeleteAfterLookup(r, products[f.index]))
  /\ pre' = [pre EXCEPT ![p] = Snapshot(p)]
  /\ UNCHANGED connVars
  /\ UNCHANGED <<staticDoc, usedOids, cloud, uploads, storageUp, now, clockRuns, createLog,
                 createOverlap>>

\* One awaited uploadToCloudinary of the PUT and the code that follows it.
MemUploadStep(p) ==
  /\ req[p].pc = "upload"
  /\ LET r == req[p]
         r2 == [r EXCEPT !.imageUrls = Append(@, uploads + 1), !.files = @ - 1]
     IN \/ /\ uploads < MaxUploads
           /\ uploads' = uploads + 1
           /\ cloud' = cloud \cup {uploads + 1}
           /\ MemSettle(p, IF r2.files > 0 THEN r2 ELSE PutAfterUpload(r2))
        \/ /\ req' = [req EXCEPT ![p] = Respond(r, 500)]
           /\ UNCHANGED <<products, cloud, uploads>>
  /\ UNCHANGED connVars
  /\ UNCHANGED <<staticDoc, usedOids, storageUp, now, clockRuns, pre, createLog, createOverlap>>

\* One awaited cloudinary.uploader.destroy and the code that follows it.
MemDestroyStep(p) ==
  /\ req[p].pc = "destroy"
  /\ LET r == req[p]
         publicId == getCloudinaryPublicId(SecureUrl(Head(r.todo)))
         rest == [r EXCEPT !.todo = Tail(@)]
     IN /\ \E ok \in BOOLEAN :
             cloud' = IF ok THEN {k \in cloud : AssetId(k) # publicId} ELSE cloud
        /\ MemSettle(p, IF rest.todo # <<>> THEN rest
                        ELSE IF r.op = "PUT" THEN PutBuildUpdates(rest)
                        ELSE [rest EXCEPT !.pc = "delete"])
  /\ UNCHANGED connVars
  /\ UNCHANGED <<staticDoc, usedOids, uploads, storageUp, now, clockRuns, pre, createLog,
                 createOverlap>>

\* ------------------------------------- connectDB, getDB, closeDB (part_001)
\* A MongoClient: new, open once its connect() has resolved, closed once its
\* close() has; ok records that a ping through its handle has succeeded.
NewClient == [state |-> "new", ok |-> FALSE]

ConnectOps == {"CONNECT", "GETDB"}

\* Handler p is inside connectDB's loop.
InCall(r) == r.op \in ConnectOps /\ r.pc \in {"connect", "ping", "wait"}

\* Attempts a call in flight can still start.
Remaining(r) == IF InCall(r) THEN r.retries + 1 - r.attempt ELSE 0

\* The top of the loop body: client = new MongoClient(...), then the call
\* awaits client.connect() on that very object.
NewAttempt(p, r) ==
  /\ clients' = Append(clients, NewClient)
  /\ client' = Len(clients) + 1
  /\ req' = [req EXCEPT ![p] = [r EXCEPT !.pc = "connect", !.mine = Len(clients) + 1]]

\* A variant of Failed that retries once more than asked.
FailedOneMore(r) ==
  IF r.attempt <= r.retries + 1
    THEN [r EXCEPT !.pc = "wait", !.delays = Append(@, r.attempt * RetryDelayMs)]
  ELSE Respond(r, 500)

\* The catch block: after a failure the call waits attempt * 1000 ms when
\* attempt <= retries, else it throws.
Failed(r) ==
  IF r.attempt <= r.retries
    THEN [r EXCEPT !.pc = "wait", !.delays = Append(@, r.attempt * RetryDelayMs)]
  ELSE Respond(r, 500)

\* connectDB(retries) up to its first await; getDB is connectDB() when db is
\* null. An open handle is returned at once, a missing uri throws.
ConnectStart(p, op, retries) ==
  /\ Begin(p)
  /\ LET r == [Idle EXCEPT !.op = op, !.retries = retries]
     IN IF db # 0
          THEN /\ req' = [req EXCEPT ![p] = Respond([r EXCEPT !.handle = db], 200)]
               /\ UNCHANGED <<client, clients>>
        ELSE IF MONGODB_URI = ""
          THEN /\ req' = [req EXCEPT ![p] = Respond(r, 500)]
               /\ UNCHANGED <<client, clients>>
        ELSE /\ Len(clients) + retries + 1
                  + Remaining(req[CHOOSE q \in Procs : q # p]) <= MaxClients
             /\ NewAttempt(p, [r EXCEPT !.attempt = 1])
  /\ UNCHANGED <<products, usedOids, cloud, staticDoc, uploads, storageUp, now, clockRuns,
                 pre, createLog, createOverlap, isVercel, MONGODB_URI, db>>

\* await client.connect() settles. On success db = client.db(DB_NAME) reads
\* the module-level client as it is now (null throws into the catch) and the
\* ping starts through that handle. A client that closeDB closed while it
\* was connecting is taken to stay closed.
ConnectStep(p) ==
  /\ req[p].pc = "connect"
  /\ LET r == req[p]
     IN IF ~storageUp
          THEN /\ req' = [req EXCEPT ![p] = Failed(r)]
               /\ UNCHANGED <<clients, db>>
        ELSE /\ clients' = [clients EXCEPT
                               ![r.mine].state = IF @ = "closed" THEN "closed" ELSE "open"]
             /\ IF client = 0
                  THEN /\ req' = [req EXCEPT ![p] = Failed(r)]
                       /\ UNCHANGED db
                ELSE /\ db' = client
                     /\ req' = [req EXCEPT ![p] = [r EXCEPT !.pc = "ping", !.handle = client]]
  /\ UNCHANGED <<products, usedOids, cloud, staticDoc, uploads, storageUp, now, clockRuns,
                 pre, createLog, createOverlap, isVercel, MONGODB_URI, client>>

\* await db.admin().ping() settles: on success connectDB returns the
\* module-level db as it is now, else the catch block runs.
PingStep(p) ==
  /\ req[p].pc = "ping"
  /\ LET r == req[p]
     IN IF ~storageUp
          THEN /\ req' = [req EXCEPT ![p] = Failed(r)]
               /\ UNCHANGED clients
        ELSE /\ clients' = [clients EXCEPT ![r.handle].ok = TRUE]
             /\ req' = [req EXCEPT ![p] = Respond([r EXCEPT !.handle = db], 200)]
  /\ UNCHANGED <<products, usedOids, cloud, staticDoc, uploads, storageUp, now, clockRuns,
                 pre, createLog, createOverlap, isVercel, MONGODB_URI, client, db>>

\* The retry timer fires and the loop goes round.
WaitStep(p) ==
  /\ req[p].pc = "wait"
  /\ NewAttempt(p, [req[p] EXCEPT !.attempt = @ + 1])
  /\ UNCHANGED <<products, usedOids, cloud, staticDoc, uploads, storageUp, now, clockRuns,
                 pre, createLog, createOverlap, isVercel, MONGODB_URI, db>>

\* closeDB up to its await: nothing to do without a client.
CloseStart(p) ==
  /\ Begin(p)
  /\ req' = [req EXCEPT ![p] =
       IF client = 0 THEN Respond([Idle EXCEPT !.op = "CLOSE"], 200)
       ELSE [Idle EXCEPT !.op = "CLOSE", !.pc = "close", !.mine = client]]
  /\ UNCHANGED connVars
  /\ UNCHANGED <<products, usedOids, cloud, staticDoc, uploads, storageUp, now, clockRuns,
                 pre, createLog, createOverlap>>

\* await client.close() has resolved: db = null; client = null.
CloseStep(p) ==
  /\ req[p].pc = "close"
  /\ clients' = [clients EXCEPT ![req[p].mine].state = "closed"]
  /\ db' = 0
  /\ client' = 0
  /\ req' = [req EXCEPT ![p] = Respond(req[p], 200)]
  /\ UNCHANGED <<products, usedOids, cloud, staticDoc, uploads, storageUp, now, clockRuns,
                 pre, createLog, createOverlap, isVercel, MONGODB_URI>>

\* ---------------------------------------------------------- specification
\* One request at a time: every handler runs to its answer before the next
\* request arrives. Storage may fail and recover between any two steps.
Handler == "h1"

Next ==
  \/ \E id \in IdTexts : GetStart(Handler, id)
  \/ \E op \in AuthOps \cup {"TOGGLE"}, tok \in Tokens : AuthReject(Handler, op, tok)
  \/ \E tok \in Tokens, n \in 0..MaxFiles, body \in Bodies :
       PostStart(Handler, tok, n, body)
  \/ \E id \in IdTexts :
       /\ req[Handler].pc = "idle"
       /\ \E keep \in Keeps(ImagesOf(id)), n \in 0..MaxFiles, body \in Bodies,
             keepOk \in BOOLEAN, tok \in Tokens :
            PutStart(Handler, tok, id, n, body, keep, keepOk)
  \/ \E id \in IdTexts, tok \in Tokens : DeleteStart(Handler, tok, id)
  \/ LookupStep(Handler)
  \/ UploadStep(Handler)
  \/ DestroyStep(Handler)
  \/ CreateRead(Handler)
  \/ CreateInsert(Handler)
  \/ UpdateStep(Handler)
  \/ DeleteStep(Handler)
  \/ Finish(Handler)
  \/ StorageFail
  \/ StorageRecover

Spec == Init /\ [][Next]_vars

\* Two handlers in flight at once, interleaved at every await, on the
\* requests that write: valid token, well-formed body, storage reachable.
ConcIds == {ToText(1)}
ConcBody == [specs |-> "s1", translations |-> "t1"]

NextConc ==
  \/ \E p \in Procs : PostStart(p, AdminToken, 1, ConcBody)
  \/ \E p \in Procs, id \in ConcIds :
       /\ req[p].pc = "idle"
       /\ \E keep \in Keeps(ImagesOf(id)), n \in 0..MaxFiles :
            PutStart(p, AdminToken, id, n, ConcBody, keep, TRUE)
  \/ \E p \in Procs, id \in ConcIds : DeleteStart(p, AdminToken, id)
  \/ \E p \in Procs : LookupStep(p)
  \/ \E p \in Procs : UploadStep(p)
  \/ \E p \in Procs : DestroyStep(p)
  \/ \E p \in Procs : CreateRead(p)
  \/ \E p \in Procs : CreateInsert(p)
  \/ \E p \in Procs : UpdateStep(p)
  \/ \E p \in Procs : DeleteStep(p)
  \/ \E p \in Procs : Finish(p)

SpecConc == Init /\ [][NextConc]_vars

\* The same run of requests against a collection that already holds
\* documents of earlier schema revisions.
InitLegacy ==
  /\ products \in LegacyCollections
  /\ usedOids = {}
  /\ cloud = {}
  /\ staticDoc = NoConfig
  /\ uploads = 0
  /\ storageUp = TRUE
  /\ now = 0
  /\ clockRuns = FALSE
  /\ req = [p \in Procs |-> Idle]
  /\ pre = [p \in Procs |-> NoPre]
  /\ createLog = <<>>
  /\ createOverlap = FALSE
  /\ Disconnected

SpecLegacy == InitLegacy /\ [][Next]_vars

\* Toggle requests on two handlers, interleaved at every await; storage may
\* fail and recover between any two steps.
NextToggle ==
  \/ \E p \in Procs, tok \in Tokens : AuthReject(p, "TOGGLE", tok)
  \/ \E p \in Procs, productId \in StaticIds \cup {<<>>} :
       ToggleStart(p, AdminToken, productId)
  \/ \E p \in Procs : ToggleGet(p)
  \/ \E p \in Procs : ToggleSave(p)
  \/ \E p \in Procs : Finish(p)
  \/ StorageFail
  \/ StorageRecover

SpecToggle == Init /\ [][NextToggle]_vars

\* The store's functions called one at a time by a writer while a reader
\* looks on, against a running clock and a collection that may already hold a
\* document without id.
Writer == "h1"
Reader == "h2"
StoreIds == {ToText(1)}

InitStore ==
  /\ products \in {<<>>, <<LegacyNoId>>}
  /\ usedOids = {}
  /\ cloud = {}
  /\ staticDoc = NoConfig
  /\ uploads = 0
  /\ storageUp = TRUE
  /\ now = 0
  /\ clockRuns = TRUE
  /\ req = [p \in Procs |-> Idle]
  /\ pre = [p \in Procs |-> NoPre]
  /\ createLog = <<>>
  /\ createOverlap = FALSE
  /\ Disconnected

NextStore ==
  \/ PostStart(Writer, AdminToken, 1, ConcBody)
  \/ UploadStep(Writer)
  \/ CreateRead(Writer)
  \/ CreateInsert(Writer)
  \/ \E id \in StoreIds, updates \in Patches : StoreUpdate(Writer, id, updates)
  \/ /\ req[Writer].pc = "done" /\ req[Writer].op = "POST" /\ req[Writer].status = 200
     /\ GetStart(Reader, req[Writer].out.id.s)
  \/ LookupStep(Reader)
  \/ \E p \in Procs : Finish(p)
  \/ Tick

SpecStore == InitStore /\ [][NextStore]_vars

\* One handler creates products over a legacy collection while the other
\* lists the collection; storage may fail and recover between any two steps.
NextList ==
  \/ PostStart(Writer, AdminToken, 1, ConcBody)
  \/ UploadStep(Writer)
  \/ CreateRead(Writer)
  \/ CreateInsert(Writer)
  \/ ListCall(Reader)
  \/ \E p \in Procs : Finish(p)
  \/ StorageFail
  \/ StorageRecover

SpecList == InitLegacy /\ [][NextList]_vars

\* The file revision: two handlers run PUT and DELETE over a list of two
\* products, in memory or in products.json.
FileProduct(id, images) ==
  [oid |-> <<>>, id |-> IntId(id), images |-> images, specs |-> "s1",
   translations |-> "t1", createdAt |-> 0, updatedAt |-> 0]
MemIds == {ToText(1), ToText(2)}
MemImagesOf(id) ==
  LET f == MemFindIndex(products, id)
  IN IF f.index = 0 \/ f.throws THEN <<>> ELSE products[f.index].images

InitMemory ==
  /\ products = <<FileProduct(1, <<1>>), FileProduct(2, <<>>)>>
  /\ usedOids = {}
  /\ cloud = {1}
  /\ staticDoc = NoConfig
  /\ uploads = 1
  /\ storageUp = TRUE
  /\ now = 0
  /\ clockRuns = FALSE
  /\ req = [p \in Procs |-> Idle]
  /\ pre = [p \in Procs |-> NoPre]
  /\ createLog = <<>>
  /\ createOverlap = FALSE
  /\ isVercel \in BOOLEAN
  /\ MONGODB_URI = Uri
  /\ client = 0
  /\ db = 0
  /\ clients = <<>>

NextMemory ==
  \/ \E p \in Procs, id \in MemIds :
       /\ req[p].pc = "idle"
       /\ \E keep \in Keeps(MemImagesOf(id)), n \in 0..MaxFiles :
            MemPutStart(p, AdminToken, id, n, ConcBody, keep)
  \/ \E p \in Procs, id \in MemIds : MemDeleteStart(p, AdminToken, id)
  \/ \E p \in Procs : MemUploadStep(p)
  \/ \E p \in Procs : MemDestroyStep(p)
  \/ \E p \in Procs : Finish(p)

SpecMemory == InitMemory /\ [][NextMemory]_vars

\* Callers of connectDB, getDB and closeDB on two handlers while the server
\* comes and goes. Every awaited promise settles: the driver's timeouts bound
\* connect and ping, and a timer fires.
InitConnect ==
  /\ products = <<>>
  /\ usedOids = {}
  /\ cloud = {}
  /\ staticDoc = NoConfig
  /\ uploads = 0
  /\ storageUp = TRUE
  /\ now = 0
  /\ clockRuns = FALSE
  /\ req = [p \in Procs |-> Idle]
  /\ pre = [p \in Procs |-> NoPre]
  /\ createLog = <<>>
  /\ createOverlap = FALSE
  /\ isVercel = FALSE
  /\ MONGODB_URI \in {"", Uri}
  /\ client = 0
  /\ db = 0
  /\ clients = <<>>

NextConnect ==
  \/ \E p \in Procs, retries \in 0..MaxRetries : ConnectStart(p, "CONNECT", retries)
  \/ \E p \in Procs : ConnectStart(p, "GETDB", DefaultRetries)
  \/ \E p \in Procs : ConnectStep(p)
  \/ \E p \in Procs : PingStep(p)
  \/ \E p \in Procs : WaitStep(p)
  \/ \E p \in Procs : CloseStart(p)
  \/ \E p \in Procs : CloseStep(p)
  \/ \E p \in Procs : Finish(p)
  \/ StorageFail
  \/ StorageRecover

SpecConnect ==
  /\ InitConnect
  /\ [][NextConnect]_vars
  /\ \A p \in Procs :
       WF_vars(ConnectStep(p) \/ PingStep(p) \/ WaitStep(p) \/ CloseStep(p))

\* ------------------------------------------------------------- properties
\* Two stored documents carry the same id.
DuplicateId(coll) ==
  \E i, j \in 1..Len(coll) :
    i # j /\ coll[i].id.t # "none" /\ coll[i].id = coll[j].id

\* The largest integer id of a collection, 0 when it holds none.
LargestIntId(coll) ==
  LET S == {coll[i].id.n : i \in {j \in 1..Len(coll) : coll[j].id.t = "int"}}
  IN IF S = {} THEN 0 ELSE MaxOf(S)

IntOrMissing(coll) == \A i \in 1..Len(coll) : coll[i].id.t \in {"int", "none"}

\* Handler p's createProduct inserts in this step.
Inserts(p) ==
  req[p].pc = "create_insert" /\ req'[p].pc = "done" /\ req'[p].status = 200

\* Membership of x in S flipped.
Flip(S, x) == IF x \in S THEN S \ {x} ELSE S \cup {x}

\* C1: createProduct inserts the id it computed when it read the collection,
\* also when a create that overlapped it has stored that very id since: the
\* collection then holds two products with the same integer id.
C1_StaleIdInserted ==
  [][\A p \in Procs :
       (Inserts(p) /\ \E i \in 1..Len(products) : products[i].id = req[p].product.id)
         => /\ DuplicateId(products')
            /\ products'[Len(products')].id = req[p].product.id]_vars

C1_Witness ==
  /\ createOverlap
  /\ \E i, j \in 1..Len(products) :
       i # j /\ products[i].id.t = "int" /\ products[i].id = products[j].id

\* C2: no id returned by a create equals the id returned by an earlier
\* create (requests one at a time, from the empty store).
C2_CreateIdsNeverRepeat ==
  \A i, j \in 1..Len(createLog) : i # j => createLog[i] # createLog[j]

\* C3: for every id text, the filter of updateProduct and deleteProduct picks
\* exactly the record getProductById resolves, and none exactly when
\* getProductById resolves none.
C3_MutationsResolveLikeGet ==
  \A id \in IdTexts :
    FindIndex(products, MutationQuery(id)) = GetIndex(products, id)

\* C4: with ids unique in the store, getProductById resolves every stored
\* record from the decimal text of its integer id, from its string id and
\* from its native identifier.
C4_GetResolvesEveryForm ==
  ~DuplicateId(products) =>
    \A i \in 1..Len(products) :
      /\ products[i].id.t = "int" => GetIndex(products, ToText(products[i].id.n)) = i
      /\ products[i].id.t = "str" => GetIndex(products, products[i].id.s) = i
      /\ GetIndex(products, products[i].oid) = i

\* C5: once deleteProduct(id) has returned (true or false), getProductById(id)
\* finds nothing.
C5_DeleteThenGetNotFound ==
  [][\A p \in Procs :
       (req[p].pc = "delete" /\ req'[p].pc = "done" /\ ~req'[p].dbErr)
         => GetIndex(products', req[p].id) = 0]_vars

\* C6: when two toggles of different ids overlapped and both have answered,
\* the persisted hidden set is the set before them with both ids flipped.
C6_NoLostToggle ==
  \A p, q \in Procs :
    ( /\ p # q
      /\ req[p].pc = "done" /\ req[p].op = "TOGGLE" /\ req[p].status = 200
      /\ req[q].pc = "done" /\ req[q].op = "TOGGLE" /\ req[q].status = 200
      /\ ~req[p].dbErr /\ ~req[q].dbErr
      /\ req[p].id # req[q].id
      /\ pre[p].set /\ pre[q].peer )
    => Range(staticDoc.hidden) = Flip(Flip(Range(pre[p].hidden), req[p].id), req[q].id)

\* C7: a PUT that answers an error leaves the collection and image storage
\* as the request found them; one that answers success has stored the new
\* image set, specs and translations, and image storage holds every image of
\* the new set.
C7_PutAllOrNothing ==
  \A p \in Procs :
    (req[p].pc = "done" /\ req[p].op = "PUT" /\ pre[p].set) =>
      IF req[p].status = 200
        THEN /\ \E i \in 1..Len(products) :
                  /\ products[i].images = req[p].imageUrls
                  /\ products[i].specs = req[p].body.specs
                  /\ products[i].translations = req[p].body.translations
             /\ Range(req[p].imageUrls) \subseteq cloud
        ELSE products = pre[p].products /\ cloud = pre[p].cloud

\* C8: a product request whose storage call failed is not answered 404.
C8_OutageIsNot404 ==
  \A p \in Procs :
    (req[p].pc = "done" /\ req[p].op \in {"GET", "POST", "PUT", "DELETE"}
       /\ req[p].dbErr)
      => req[p].status # 404

C10_IdsUniqueWithoutCreateOverlap == ~createOverlap => ~DuplicateId(products)

C10_Witness ==
  /\ ~createOverlap
  /\ Len(products) = 2
  /\ \E p \in Procs : req[p].pc = "done" /\ req[p].op = "PUT" /\ req[p].status = 200
  /\ \E p \in Procs : req[p].pc \notin {"idle", "done"}

\* Position of the record the three tiers name for an id text, in order:
\* the integer the text parses to, the text itself, the native identifier.
TierIndex(coll, id) ==
  LET n == parseInt(id)
      byInt == IF n.t = "num" THEN FindIndex(coll, ByNumericId(n.v)) ELSE 0
      byText == FindIndex(coll, ByStringId(id))
      byNative == IF IsObjectIdText(id) THEN FindIndex(coll, ByObjectId(id)) ELSE 0
  IN IF byInt # 0 THEN byInt ELSE IF byText # 0 THEN byText ELSE byNative

\* Handler p's getProductById returns in this step without a storage error.
LookupReturns(p) ==
  req[p].pc = "lookup" /\ req'[p].pc # "lookup" /\ ~req'[p].dbErr

\* C11: getProductById returns the first match of the tiers in order (integer
\* id the text parses to, then the text as string id, then the native
\* identifier for a 24-character hexadecimal text), and not-found when no
\* tier matches.
C11_LookupTierOrder ==
  [][\A p \in Procs :
       (LookupReturns(p) /\ req[p].op = "GET")
         => IF TierIndex(products, req[p].id) = 0
              THEN req'[p].status = 404
              ELSE /\ req'[p].status = 200
                   /\ req'[p].out = Returned(products[TierIndex(products, req[p].id)])]_vars

C11_Witness ==
  \E p \in Procs :
    /\ req[p].pc = "done" /\ req[p].op = "GET" /\ req[p].status = 200
    /\ req[p].id \in OidPool
    /\ \E i, j \in 1..Len(products) :
         /\ i # j
         /\ products[i].oid = req[p].id
         /\ products[j].id = IntId(parseInt(req[p].id).v)
         /\ req[p].out = Returned(products[j])

\* Handler p's direct updateProduct call returns a record in this step.
Updates(p) ==
  /\ req[p].pc = "idle" /\ req'[p].pc = "done"
  /\ req'[p].op = "UPDATE" /\ req'[p].status = 200

\* C12: updateProduct with a patch over images, specs and translations sets
\* each field the patch names to the patch's value as a whole and updatedAt
\* to the current instant, and leaves every other field of the record (id,
\* createdAt and native identifier included) and every other record as they
\* were; with the empty patch only updatedAt changes.
C12_UpdateFrame ==
  [][\A p \in Procs :
       Updates(p) =>
         LET u == req'[p].patch
             i == FindIndex(products, MutationQuery(req'[p].id))
         IN /\ i # 0
            /\ Len(products') = Len(products)
            /\ \A j \in 1..Len(products) : j # i => products'[j] = products[j]
            /\ \A f \in PatchFields :
                 products'[i][f] = IF f \in u.has THEN u[f] ELSE products[i][f]
            /\ products'[i].updatedAt = now
            /\ products'[i].id = products[i].id
            /\ products'[i].oid = products[i].oid
            /\ products'[i].createdAt = products[i].createdAt
            /\ u.has = {} => products'[i] = [products[i] EXCEPT !.updatedAt = now]]_vars

C12_Witness ==
  \E p \in Procs :
    /\ req[p].pc = "done" /\ req[p].op = "UPDATE" /\ req[p].status = 200
    /\ req[p].patch.has = {"specs"}
    /\ \E i \in 1..Len(products) :
         /\ products[i].specs = "s2" /\ products[i].translations = "t1"
         /\ products[i].updatedAt > products[i].createdAt
    /\ Len(products) >= 2

\* Handlers p and q have answered two successive toggles of one id, p's
\* first: p started while q was idle, q started once p had answered and
\* found persisted what p wrote, and neither met a storage error.
SuccessiveToggles(p, q) ==
  /\ p # q
  /\ req[p].pc = "done" /\ req[p].op = "TOGGLE" /\ req[p].status = 200
  /\ req[q].pc = "done" /\ req[q].op = "TOGGLE" /\ req[q].status = 200
  /\ ~req[p].dbErr /\ ~req[q].dbErr
  /\ req[p].id = req[q].id
  /\ pre[p].set
  /\ ~pre[q].set /\ ~pre[q].peer
  /\ pre[q].hidden = req[p].hid

\* C13: after two successive toggles of one id with no other toggle in
\* between, the persisted hidden set is the set H the first toggle found, and
\* the second response reports H.
C13_ToggleTwice ==
  \A p, q \in Procs :
    SuccessiveToggles(p, q) =>
      /\ Range(staticDoc.hidden) = Range(req[p].seen)
      /\ Range(req[q].hid) = Range(req[p].seen)

C13_Witness ==
  \E p, q \in Procs :
    /\ SuccessiveToggles(p, q)
    /\ req[p].seen # <<>>
    /\ req[p].id \notin Range(req[p].seen)

\* C14: a toggle of id X that finds the persisted hidden set as it was when
\* the request started leaves it with the membership of X flipped and every
\* other identifier as before, also when a storage read or write fails
\* during the call.
C14_ToggleFrame ==
  [][\A p \in Procs :
       (req[p].pc = "toggle_save" /\ req'[p].pc = "done" /\ req'[p].status = 200
          /\ staticDoc.hidden = pre[p].hidden)
         => Range(staticDoc'.hidden) = Flip(Range(pre[p].hidden), req[p].id)]_vars

\* C15: every stored product has at least one image, and a product request
\* that is past its uploads with an empty image set has been answered 400.
C15_ImagesNonEmpty ==
  /\ \A i \in 1..Len(products) : products[i].images # <<>>
  /\ \A p \in Procs :
       (req[p].op \in {"POST", "PUT"} /\ req[p].pc \in {"create_read", "create_insert",
                                                        "destroy", "update"})
         => req[p].imageUrls # <<>>

C15_Witness ==
  \E p \in Procs :
    /\ req[p].pc = "done" /\ req[p].op = "PUT" /\ req[p].status = 400
    /\ req[p].imageUrls = <<>> /\ req[p].product.images # <<>>
    /\ products # <<>>

\* C16: POST /api/products that carries a valid token and no image file is
\* answered 400 at once; no product is stored and nothing is uploaded.
C16_PostWithoutImages ==
  [][\A p \in Procs :
       (req[p].pc = "idle" /\ req'[p].op = "POST" /\ req'[p].tok = AdminToken
          /\ req'[p].files = 0)
         => /\ req'[p].pc = "done" /\ req'[p].status = 400
            /\ UNCHANGED <<products, cloud, uploads>>]_vars

C16_Witness ==
  \E p \in Procs :
    /\ req[p].pc = "done" /\ req[p].op = "POST" /\ req[p].status = 400
    /\ req[p].tok = AdminToken /\ req[p].imageUrls = <<>>
    /\ pre[p].set /\ products = pre[p].products /\ cloud = pre[p].cloud
    /\ products # <<>>

\* C18: a request to POST, PUT or DELETE /api/products or to the toggle
\* route without a token is answered 401 and one with a token other than the
\* configured secret 403; the collection, the hidden set and image storage
\* stay as they are.
C18_AuthRejects ==
  [][\A p \in Procs :
       (req[p].pc = "idle" /\ req'[p].op \in AuthOps \cup {"TOGGLE"})
         => /\ req'[p].tok = ""
                 => /\ req'[p].pc = "done" /\ req'[p].status = 401
                    /\ UNCHANGED <<products, staticDoc, cloud, uploads>>
            /\ req'[p].tok \notin {"", AdminToken}
                 => /\ req'[p].pc = "done" /\ req'[p].status = 403
                    /\ UNCHANGED <<products, staticDoc, cloud, uploads>>]_vars

C18_Witness ==
  \E p \in Procs :
    /\ req[p].pc = "done" /\ req[p].op = "DELETE" /\ req[p].status = 403
    /\ req[p].tok = "wrong"
    /\ pre[p].set /\ products = pre[p].products /\ cloud = pre[p].cloud
    /\ products # <<>>

\* Handler p's getProducts call returns in this step.
Lists(p) == req[p].pc = "idle" /\ req'[p].pc = "done" /\ req'[p].op = "LIST"

ExceptTimestamps(rec) == [rec EXCEPT !.createdAt = 0, !.updatedAt = 0]

\* Handler q has looked up, without storage error, the id that the create of
\* handler p returned.
RoundTrip(p, q) ==
  /\ req[p].pc = "done" /\ req[p].op = "POST" /\ req[p].status = 200
  /\ req[q].pc = "done" /\ req[q].op = "GET" /\ req[q].status = 200
  /\ req[q].id = req[p].out.id.s

\* C19: the record getProductById returns for the id that createProduct
\* returned equals the record createProduct returned, in every field except
\* the timestamps.
C19_RoundTrip ==
  \A p, q \in Procs :
    RoundTrip(p, q) => ExceptTimestamps(req[q].out) = ExceptTimestamps(req[p].out)

\* C20: every record createProduct stores and returns has createdAt equal to
\* updatedAt, also when the clock advances during the call.
C20_CreatedEqualsUpdated ==
  [][\A p \in Procs :
       Inserts(p) =>
         /\ products'[Len(products')].createdAt = products'[Len(products')].updatedAt
         /\ req'[p].out.createdAt = req'[p].out.updatedAt]_vars

\* Handler p's PUT writes the list in this step.
MemWrites(p) ==
  req[p].op = "PUT" /\ req[p].pc # "done" /\ req'[p].pc = "done" /\ req'[p].status = 200

\* The entries of a list other than the product with the id of the text.
Others(arr, id) == SelectSeq(arr, LAMBDA d : d.id # IntId(parseInt(id).v))

\* C21: in the file revision, whatever ran while a PUT was suspended, its
\* write changes only the product whose id is :id: the written entry has
\* that id, and the other entries of the list are what they were just before
\* the write (none modified, none brought back).
C21_PutTouchesOnlyItsProduct ==
  [][\A p \in Procs :
       MemWrites(p) =>
         /\ req'[p].out.id = IntId(parseInt(req'[p].id).v)
         /\ Others(products', req'[p].id) = Others(products, req'[p].id)]_vars

\* The delays of a call so far are 1000, 2000, ... ms.
LinearDelays(r) == r.delays = [i \in 1..Len(r.delays) |-> i * RetryDelayMs]

\* One step of a connectDB call of handler p keeps to the retry schedule.
ConnectSchedule(p) ==
  LET r == req[p]
      r2 == req'[p]
  IN (InCall(r) /\ r2 # r) =>
       /\ r2.attempt <= r2.retries + 1
       /\ LinearDelays(r2)
       /\ (r.pc = "ping" /\ storageUp) =>
            r2.pc = "done" /\ r2.status = 200 /\ r2.handle = db' /\ clients' # <<>>
            /\ Len(clients') = Len(clients)
       /\ (r2.pc = "done" /\ r2.status = 200) =>
            r.pc = "ping" /\ Len(r2.delays) = r2.attempt - 1
       /\ (r2.pc = "done" /\ r2.status = 500) =>
            /\ r2.attempt = r2.retries + 1
            /\ Len(r2.delays) = r2.retries
            /\ Len(clients') = Len(clients)
       /\ r2.pc = "wait" =>
            /\ r2.attempt = r.attempt
            /\ r2.delays = Append(r.delays, r.attempt * RetryDelayMs)
       /\ r.pc = "wait" => r2.attempt = r.attempt + 1 /\ r2.pc = "connect"

C23_StoredImagesExist ==
  (\A p \in Procs : req[p].pc \in {"idle", "done"}) =>
    \A i \in 1..Len(products) : Range(products[i].images) \subseteq cloud

\* C24: a DELETE /api/products/:id that answers 404 leaves the product
\* collection and image storage as they were when the request started.
C24_Delete404ChangesNothing ==
  \A p \in Procs :
    (req[p].pc = "done" /\ req[p].op = "DELETE" /\ req[p].status = 404 /\ pre[p].set)
      => products = pre[p].products /\ cloud = pre[p].cloud

\* The text is exactly one of the identifiers of the document: the decimal
\* text of its integer id, its string id, or its native identifier (in either
\* letter case).
ExactIdOf(doc, id) ==
  \/ doc.id.t = "int" /\ id = ToText(doc.id.n)
  \/ doc.id.t = "str" /\ id = doc.id.s
  \/ IsObjectIdText(id) /\ ObjectIdOf(id) = doc.oid

\* C25: getProductById(id) returns a record only when the whole text id is
\* exactly one of that record's identifiers.
C25_GetNeedsExactId ==
  \A p \in Procs :
    (req[p].pc = "done" /\ req[p].op = "GET" /\ req[p].status = 200) =>
      \E i \in 1..Len(products) :
        Returned(products[i]) = req[p].out /\ ExactIdOf(products[i], req[p].id)

\* C26: when the toggle handler answers success with hidden list H, H is
\* what the config document holds at that moment, so that a read that
\* follows with no toggle in between returns H.
C26_ToggleSuccessIsPersisted ==
  [][\A p \in Procs :
       (req[p].pc = "toggle_save" /\ req'[p].pc = "done" /\ req'[p].status = 200)
         => getStaticProducts(staticDoc', TRUE) = req'[p].hid]_vars

\* No connectDB, getDB or closeDB call is between two of its steps.
Quiet == \A p \in Procs : req[p].pc \in {"idle", "done"}

\* C27: whenever no call is in flight, the module-level db is non-null only
\* if some attempt has completed both connect and ping successfully.
C27_DbOnlyAfterPing ==
  (Quiet /\ db # 0) => \E k \in 1..Len(clients) : clients[k].ok

\* C28: whenever no call is in flight, every client connectDB has created is
\* closed (or never connected) unless it is the one the module-level client
\* variable refers to.
C28_NoClientLeaks ==
  Quiet => \A k \in 1..Len(clients) : clients[k].state = "open" => client = k

====
